---- MODULE Spec2Model ----
(***************************************************************************)
(* Model of server.js: an Express server over a SQLite database with three *)
(* tables (users, members, policies).                                      *)
(*                                                                         *)
(* Time is counted in units of thirty days, so that the 30-day window of   *)
(* 30*24*60*60*1000 ms is ThirtyDays units.  Date.now() is the variable    *)
(* clock.                                                                  *)
(*                                                                         *)
(* A handler that issues a statement with db.run / db.get returns at once; *)
(* the database executes the statement later and then calls the callback.  *)
(* The database runs in its default (parallel) mode: server.js wraps only  *)
(* the CREATE TABLE statements in db.serialize, so statements in flight    *)
(* (variable pending) execute in any order.  Each statement executes       *)
(* atomically and its callback is part of the same step.                   *)
(*                                                                         *)
(* The register and login handlers read neither a table nor the clock      *)
(* before their first statement executes, so each is taken at the moment   *)
(* that statement executes.  What stays in flight is: the UPDATE issued by *)
(* addTrialToUser, which no response waits for; a login between its SELECT *)
(* and the end of bcrypt.compare; a payment between its handler, which     *)
(* computes newExpiry, and the execution of its UPDATE.                    *)
(*                                                                         *)
(* The store is assumed to accept every statement that violates no         *)
(* constraint of the schema (no I/O failure, no crash).                    *)
(***************************************************************************)
EXTENDS Integers, Sequences, FiniteSets, TLC

\* ---------------------------------------------------------------- bounds
MaxClock == 2
MaxRequests == 1
MaxRows == 2

\* -------------------------------------------------------- program constants
\* 30*24*60*60*1000 ms, in units of thirty days
ThirtyDays == 1

\* ------------------------------------------------------------ input values
\* "" is a missing (falsy) body field
Names == {"A"}
Emails == {"a@x.com"}
Passwords == {"p", "q"}
References == {"ref"}

\* SQL NULL in the subscriptionExpiry column
NULL == <<>>

\* a text field missing from a members body, bound as SQL NULL; the bodies
\* drawn leave out idNumber or nothing
Undefined == "undefined"
MemberNames == {"M"}
IdNumbers == {"ID1", "ID2"}
Addresses == {"addr"}
MemberBodies ==
    [name : MemberNames, idNumber : IdNumbers \cup {Undefined}, address : Addresses]

\* policies bodies carry every field, each of the type of its column
PolicyBodies ==
    [memberId : {1, 2}, planType : {"basic"}, coverLevel : {1000}, premium : {50},
     startDate : {"2024-01-01"}, status : {"active", "lapsed"}]

VARIABLES users, members, memberSeq, policies, policySeq, clock, pending, resp, trialEndsOf

vars == <<users, members, memberSeq, policies, policySeq, clock, pending, resp, trialEndsOf>>

\* users       : sequence of rows, users[id] is the row with that id
\*               (AUTOINCREMENT, rows are never deleted)
\* members     : function from the ids of the rows present to the rows
\* memberSeq   : the largest member id handed out so far (AUTOINCREMENT)
\* policies, policySeq : likewise
\* clock       : Date.now()
\* pending     : the statements and bcrypt comparisons in flight
\* resp        : the last response sent
\* trialEndsOf : trialEndsOf[id] is the trialEnds value of the response to the
\*               registration that created user id (a record of output,
\*               read by the properties only)

\* -------------------------------------------------------------- conversions
\* Date.prototype.toISOString: a timestamp to its ISO-8601 text
ToISOString(ms) == <<"iso", ms>>

\* new Date(text): an ISO-8601 text to its timestamp
ParseDate(text) == text[2]

\* bcrypt.hash(password, 10): an opaque digest
Hash(password) == <<"bcrypt", password>>

VerifyAlways(password, digest) == TRUE

\* bcrypt.compare(password, digest)
Verify(password, digest) == digest = Hash(password)

\* ------------------------------------------------------------ users table
EmailTakenNever(us, email) == FALSE

\* the UNIQUE constraint on users.email
EmailTaken(us, email) == \E i \in DOMAIN us : us[i].email = email

\* INSERT INTO users (name, email, password): subscriptionExpiry is NULL and
\* hasPaid takes its DEFAULT 0
InsertUser(us, name, email, digest) ==
    Append(us, [id |-> Len(us) + 1, name |-> name, email |-> email, password |-> digest,
                subscriptionExpiry |-> NULL, hasPaid |-> FALSE])

TrialExpiryLate(now) == ToISOString(now + 2 * ThirtyDays)

\* addTrialToUser: the expiry it computes
TrialExpiry(now) == ToISOString(now + ThirtyDays)

\* the trialEnds of the register response
TrialEnds(now) == ToISOString(now + ThirtyDays)

\* UPDATE users SET subscriptionExpiry = ? WHERE id = ?
TrialUpdate(us, userId, expiry) ==
    [i \in DOMAIN us |-> IF i = userId THEN [us[i] EXCEPT !.subscriptionExpiry = expiry]
                                          ELSE us[i]]

\* the newExpiry of the pay handler
NewExpiry(now) == ToISOString(now + ThirtyDays)

PayUpdateAdditive(us, userId, newExpiry) ==
    [i \in DOMAIN us |->
        IF i = userId
        THEN [us[i] EXCEPT !.hasPaid = TRUE,
                           !.subscriptionExpiry =
                               IF us[i].subscriptionExpiry = NULL THEN newExpiry
                               ELSE ToISOString(ParseDate(us[i].subscriptionExpiry) + ThirtyDays)]
        ELSE us[i]]

PayUpdateNoWhere(us, userId, newExpiry) ==
    [i \in DOMAIN us |-> [us[i] EXCEPT !.hasPaid = TRUE, !.subscriptionExpiry = newExpiry]]

\* UPDATE users SET hasPaid = 1, subscriptionExpiry = ? WHERE id = ?
PayUpdate(us, userId, newExpiry) ==
    [i \in DOMAIN us |->
        IF i = userId THEN [us[i] EXCEPT !.hasPaid = TRUE, !.subscriptionExpiry = newExpiry]
                      ELSE us[i]]

\* SELECT * FROM users WHERE email = ?: the ids of the rows found
SelectUser(us, email) == {i \in DOMAIN us : us[i].email = email}

BlockedAtExpiry(expiryText, now) == expiryText = NULL \/ ParseDate(expiryText) <= now

\* the login gate: !expiry || expiry < now
Blocked(expiryText, now) == expiryText = NULL \/ ParseDate(expiryText) < now

\* --------------------------------------------------------------- responses
AllFieldsRequired(op) == [op |-> op, status |-> 400, error |-> "All fields required"]

EmailInUse == [op |-> "register", status |-> 400, error |-> "Email already in use"]

Registered(now) ==
    [op |-> "register", status |-> 200,
     message |-> "Registered. Free trial active for 30 days.", trialEnds |-> TrialEnds(now)]

InvalidCredentials == [op |-> "login", status |-> 400, error |-> "Invalid credentials"]

TrialExpiredReformatted(user) ==
    [op |-> "login", status |-> 403,
     error |-> "Your free trial has expired. Please pay R300 to continue.",
     trialExpired |-> TRUE,
     expiryDate |-> IF user.subscriptionExpiry = NULL THEN ToISOString(0)
                    ELSE user.subscriptionExpiry]

TrialExpired(user) ==
    [op |-> "login", status |-> 403,
     error |-> "Your free trial has expired. Please pay R300 to continue.",
     trialExpired |-> TRUE, expiryDate |-> user.subscriptionExpiry]

LoginSuccessful == [op |-> "login", status |-> 200, message |-> "Login successful"]

PayRequired ==
    [op |-> "pay", status |-> 400, error |-> "User ID and payment reference required"]

PaymentReceived(newExpiry) ==
    [op |-> "pay", status |-> 200,
     message |-> "Payment received. Subscription renewed for 30 days.", newExpiry |-> newExpiry]

NoResponse == [op |-> "none", status |-> 0]

\* ------------------------------------------------------------------- state
Init ==
    /\ users = <<>>
    /\ members = <<>>
    /\ memberSeq = 0
    /\ policies = <<>>
    /\ policySeq = 0
    /\ clock = 0
    /\ pending = {}
    /\ resp = NoResponse
    /\ trialEndsOf = <<>>

\* the requests being handled: every statement in flight but the trial
\* updates, which no response waits for
Requests == Cardinality({s \in pending : s.kind # "trial"})

crud == <<members, memberSeq, policies, policySeq>>

\* time passes
Tick ==
    /\ clock < MaxClock
    /\ clock' = clock + 1
    /\ UNCHANGED <<users, crud, pending, resp, trialEndsOf>>

\* ---------------------------------------------------- POST /api/auth/register
\* The whole handler: validation, bcrypt.hash, the INSERT and its callback,
\* where addTrialToUser(this.lastID) issues the UPDATE and the response is
\* sent without waiting for it.  The handler reads no state and no clock
\* before the INSERT executes, so the request is taken at that moment.
Register(name, email, password) ==
    /\ IF name = "" \/ email = "" \/ password = ""
       THEN /\ resp' = AllFieldsRequired("register")
            /\ UNCHANGED <<users, pending, trialEndsOf>>
       ELSE IF EmailTaken(users, email)
       THEN /\ resp' = EmailInUse
            /\ UNCHANGED <<users, pending, trialEndsOf>>
       ELSE /\ users' = InsertUser(users, name, email, Hash(password))
            /\ pending' = pending \cup {[kind |-> "trial", userId |-> Len(users'),
                                         expiry |-> TrialExpiry(clock)]}
            /\ resp' = Registered(clock)
            /\ trialEndsOf' = Append(trialEndsOf, resp'.trialEnds)
    /\ UNCHANGED <<crud, clock>>

\* the UPDATE of addTrialToUser executes; its callback only logs
ExecTrial(s) ==
    /\ s \in pending /\ s.kind = "trial"
    /\ users' = TrialUpdate(users, s.userId, s.expiry)
    /\ pending' = pending \ {s}
    /\ UNCHANGED <<crud, clock, resp, trialEndsOf>>

\* ------------------------------------------------------- POST /api/auth/login
\* The handler up to bcrypt.compare: validation and the SELECT, taken at the
\* moment the SELECT executes.  No row answers at once; a row starts
\* bcrypt.compare on the row read.
Login(email, password) ==
    /\ IF email = "" \/ password = ""
       THEN /\ resp' = AllFieldsRequired("login")
            /\ UNCHANGED pending
       ELSE IF SelectUser(users, email) = {}
       THEN /\ resp' = InvalidCredentials
            /\ UNCHANGED pending
       ELSE /\ Requests < MaxRequests
            /\ \E i \in SelectUser(users, email) :
                 pending' = pending \cup {[kind |-> "compare", password |-> password,
                                           user |-> users[i]]}
            /\ UNCHANGED resp
    /\ UNCHANGED <<users, crud, clock, trialEndsOf>>

\* bcrypt.compare resolves and the rest of the callback runs on the row read
LoginCompare(s) ==
    /\ s \in pending /\ s.kind = "compare"
    /\ pending' = pending \ {s}
    /\ resp' = IF ~Verify(s.password, s.user.password) THEN InvalidCredentials
               ELSE IF Blocked(s.user.subscriptionExpiry, clock) THEN TrialExpired(s.user)
               ELSE LoginSuccessful
    /\ UNCHANGED <<users, crud, clock, trialEndsOf>>

\* -------------------------------------------------- POST /api/subscription/pay
\* the handler up to db.run: validation, newExpiry, the UPDATE is issued
Pay(userId, reference) ==
    /\ IF userId = 0 \/ reference = ""
       THEN /\ resp' = PayRequired
            /\ UNCHANGED pending
       ELSE /\ Requests < MaxRequests
            /\ pending' = pending \cup {[kind |-> "pay", userId |-> userId,
                                         newExpiry |-> NewExpiry(clock)]}
            /\ UNCHANGED resp
    /\ UNCHANGED <<users, crud, clock, trialEndsOf>>

\* the UPDATE executes and its callback answers with newExpiry
ExecPay(s) ==
    /\ s \in pending /\ s.kind = "pay"
    /\ users' = PayUpdate(users, s.userId, s.newExpiry)
    /\ pending' = pending \ {s}
    /\ resp' = PaymentReceived(s.newExpiry)
    /\ UNCHANGED <<crud, clock, trialEndsOf>>

\* the userId of a pay body: 0 is a missing (falsy) one, the largest is the
\* id of no user
UserIds == 0 .. (Cardinality(Emails) + 1)

Next ==
    \/ Tick
    \/ \E n \in Names \cup {""}, e \in Emails \cup {""}, p \in Passwords \cup {""} :
          Register(n, e, p)
    \/ \E s \in pending : ExecTrial(s)
    \/ \E e \in Emails \cup {""}, p \in Passwords \cup {""} : Login(e, p)
    \/ \E s \in pending : LoginCompare(s)
    \/ \E u \in UserIds, r \in References \cup {""} : Pay(u, r)
    \/ \E s \in pending : ExecPay(s)

Spec == Init /\ [][Next]_vars

\* the database executes every statement issued to it
FairSpec == Spec /\ WF_vars(\E s \in pending : ExecTrial(s))

\* ================================================================ properties
InvalidCredentials400 == [op |-> "login", status |-> 400, error |-> "Invalid credentials"]

\* C1, as claimed: a login whose password verifies succeeds iff the
\* subscriptionExpiry it read is present and strictly greater than the
\* current time, and is otherwise rejected with 403 and trialExpired.
C1_Claim ==
    [][\A s \in pending :
         (LoginCompare(s) /\ s.user.password = Hash(s.password)) =>
            IF s.user.subscriptionExpiry # NULL /\ ParseDate(s.user.subscriptionExpiry) > clock
            THEN resp'.status = 200 /\ resp'.message = "Login successful"
            ELSE resp'.status = 403 /\ resp'.trialExpired = TRUE]_vars

\* C1, amended: a login whose password verifies succeeds iff the
\* subscriptionExpiry it read is present and greater than or equal to the
\* current time (a login at the very instant of expiry still succeeds), and
\* is otherwise rejected with 403 and trialExpired.
C1_Thm ==
    [][\A s \in pending :
         (LoginCompare(s) /\ s.user.password = Hash(s.password)) =>
            IF s.user.subscriptionExpiry # NULL /\ ParseDate(s.user.subscriptionExpiry) >= clock
            THEN resp'.status = 200 /\ resp'.message = "Login successful"
            ELSE resp'.status = 403 /\ resp'.trialExpired = TRUE]_vars

\* a login has succeeded and the user's subscription expires at this instant
C1_Witness ==
    /\ resp.op = "login" /\ resp.status = 200
    /\ \E i \in DOMAIN users :
          /\ users[i].subscriptionExpiry # NULL
          /\ ParseDate(users[i].subscriptionExpiry) = clock

C4_Thm ==
    /\ [](\A i, j \in DOMAIN users : users[i].email = users[j].email => i = j)
    /\ [][\A n \in Names, e \in Emails, p \in Passwords :
            (Register(n, e, p) /\ \E i \in DOMAIN users : users[i].email = e) =>
               /\ resp'.status = 400
               /\ resp'.error = "Email already in use"
               /\ users' = users]_vars

\* a second registration of the email of the only user has been refused
C4_Witness ==
    /\ resp.op = "register" /\ resp.status = 400 /\ resp.error = "Email already in use"
    /\ Len(users) = 1

\* C5: a login whose email no user has, or whose password does not verify
\* against the digest of the row read, is answered 400 'Invalid credentials',
\* whatever the subscription state of that row.
C5_Thm ==
    [][/\ \A e \in Emails, p \in Passwords :
            (Login(e, p) /\ ~\E i \in DOMAIN users : users[i].email = e) =>
               resp' = InvalidCredentials400
       /\ \A s \in pending :
            (LoginCompare(s) /\ s.user.password # Hash(s.password)) =>
               resp' = InvalidCredentials400]_vars

\* a login has been refused as invalid while the only user has an expired
\* subscription and nothing is in flight
C5_Witness ==
    /\ resp = InvalidCredentials400
    /\ pending = {}
    /\ Len(users) = 1
    /\ users[1].subscriptionExpiry # NULL
    /\ ParseDate(users[1].subscriptionExpiry) < clock

\* C6, as claimed: once a registration is answered, a login with its email and
\* password that is evaluated before the trialEnds of that answer succeeds.
C6_Claim ==
    [][\A s \in pending :
         (/\ LoginCompare(s)
          /\ s.user.password = Hash(s.password)
          /\ clock < ParseDate(trialEndsOf[s.user.id])) =>
            resp'.status = 200]_vars

\* C9: no step of a login changes a table, and the expiryDate of a 403
\* response is the subscriptionExpiry of the row the login read, as stored.
C9_Thm ==
    [][/\ \A e \in Emails \cup {""}, p \in Passwords \cup {""} :
            Login(e, p) => UNCHANGED <<users, members, policies>>
       /\ \A s \in pending :
            LoginCompare(s) =>
               /\ UNCHANGED <<users, members, policies>>
               /\ resp'.status \in {200, 400, 403}
               /\ resp'.status = 403 => resp'.expiryDate = s.user.subscriptionExpiry]_vars

\* a login has been rejected before the trial update was applied: the row
\* still has no expiry, and the response carries none
C9_Witness ==
    /\ resp.op = "login" /\ resp.status = 403
    /\ resp.expiryDate = NULL
    /\ Len(users) = 1
    /\ users[1].subscriptionExpiry = NULL

\* C10: a pay request with userId and reference carries newExpiry = now + 30
\* days, and when its UPDATE executes for a userId no user has, the response
\* is 200 with that newExpiry while the users table stays as it was.
C10_Thm ==
    [][/\ \A u \in UserIds \ {0}, r \in References :
            (Pay(u, r) /\ u \notin DOMAIN users) =>
               [kind |-> "pay", userId |-> u,
                newExpiry |-> ToISOString(clock + ThirtyDays)] \in pending'
       /\ \A s \in pending :
            (ExecPay(s) /\ s.userId \notin DOMAIN users) =>
               /\ resp'.status = 200
               /\ resp'.newExpiry = s.newExpiry
               /\ users' = users]_vars

\* a payment has been answered 200 although the only user never paid and
\* stores another expiry than the one returned
C10_Witness ==
    /\ resp.op = "pay" /\ resp.status = 200
    /\ Len(users) = 1
    /\ ~users[1].hasPaid
    /\ users[1].subscriptionExpiry # resp.newExpiry

\* ----------------------------------------------------------- members table
\* the NOT NULL and UNIQUE constraints of members, for a row written at id
MemberConstraint(ms, id, body) ==
    \/ body.name = Undefined
    \/ body.idNumber = Undefined
    \/ \E j \in DOMAIN ms : j # id /\ ms[j].idNumber = body.idNumber

MemberRow(id, body) ==
    [id |-> id, name |-> body.name, idNumber |-> body.idNumber, address |-> body.address]

UpdateMemberUpsert(ms, id, body) == (id :> MemberRow(id, body)) @@ ms

\* UPDATE members SET name=?,idNumber=?,address=? WHERE id=?
UpdateMember(ms, id, body) ==
    [i \in DOMAIN ms |-> IF i = id THEN MemberRow(id, body) ELSE ms[i]]

\* DELETE FROM <table> WHERE id=?
DeleteRow(table, id) == [i \in DOMAIN table \ {id} |-> table[i]]

\* SELECT * FROM <table> WHERE id=?: the row, or nothing
SelectRow(table, id) == IF id \in DOMAIN table THEN {table[id]} ELSE {}

\* SELECT * FROM <table>
SelectAll(table) == {table[i] : i \in DOMAIN table}

\* ---------------------------------------------------------- policies table
PolicyRow(id, body) ==
    [id |-> id, memberId |-> body.memberId, planType |-> body.planType,
     coverLevel |-> body.coverLevel, premium |-> body.premium,
     startDate |-> body.startDate, status |-> body.status]

\* UPDATE policies SET planType=?,coverLevel=?,premium=?,startDate=?,status=?
\* WHERE id=?
UpdatePolicy(ps, id, body) ==
    [i \in DOMAIN ps |->
        IF i = id
        THEN [ps[i] EXCEPT !.planType = body.planType, !.coverLevel = body.coverLevel,
                           !.premium = body.premium, !.startDate = body.startDate,
                           !.status = body.status]
        ELSE ps[i]]

DBError(op) == [op |-> op, status |-> 500, error |-> "DB error"]

Created(op, id) == [op |-> op, status |-> 200, id |-> id]

\* res.sendStatus(200)
Status200(op) == [op |-> op, status |-> 200]

Rows(op, rows) == [op |-> op, status |-> 200, rows |-> rows]

auth == <<users, clock, pending, trialEndsOf>>

\* GET /api/members
GetMembers ==
    /\ resp' = Rows("GET /api/members", SelectAll(members))
    /\ UNCHANGED <<auth, crud>>

\* GET /api/members/:id
GetMember(id) ==
    /\ resp' = Rows("GET /api/members/:id", SelectRow(members, id))
    /\ UNCHANGED <<auth, crud>>

\* POST /api/members
PostMember(body) ==
    /\ memberSeq < MaxRows
    /\ IF MemberConstraint(members, memberSeq + 1, body)
       THEN /\ resp' = DBError("POST /api/members")
            /\ UNCHANGED <<members, memberSeq>>
       ELSE /\ memberSeq' = memberSeq + 1
            /\ members' = (memberSeq' :> MemberRow(memberSeq', body)) @@ members
            /\ resp' = Created("POST /api/members", memberSeq')
    /\ UNCHANGED <<auth, policies, policySeq>>

\* PUT /api/members/:id
PutMember(id, body) ==
    /\ IF id \in DOMAIN members /\ MemberConstraint(members, id, body)
       THEN /\ resp' = DBError("PUT /api/members/:id")
            /\ UNCHANGED members
       ELSE /\ members' = UpdateMember(members, id, body)
            /\ resp' = Status200("PUT /api/members/:id")
    /\ UNCHANGED <<auth, memberSeq, policies, policySeq>>

\* DELETE /api/members/:id
DeleteMember(id) ==
    /\ members' = DeleteRow(members, id)
    /\ resp' = Status200("DELETE /api/members/:id")
    /\ UNCHANGED <<auth, memberSeq, policies, policySeq>>

\* GET /api/policies
GetPolicies ==
    /\ resp' = Rows("GET /api/policies", SelectAll(policies))
    /\ UNCHANGED <<auth, crud>>

\* GET /api/policies/:id
GetPolicy(id) ==
    /\ resp' = Rows("GET /api/policies/:id", SelectRow(policies, id))
    /\ UNCHANGED <<auth, crud>>

\* POST /api/policies (the FOREIGN KEY is declared, not enforced)
PostPolicy(body) ==
    /\ policySeq < MaxRows
    /\ policySeq' = policySeq + 1
    /\ policies' = (policySeq' :> PolicyRow(policySeq', body)) @@ policies
    /\ resp' = Created("POST /api/policies", policySeq')
    /\ UNCHANGED <<auth, members, memberSeq>>

\* PUT /api/policies/:id
PutPolicy(id, body) ==
    /\ policies' = UpdatePolicy(policies, id, body)
    /\ resp' = Status200("PUT /api/policies/:id")
    /\ UNCHANGED <<auth, members, memberSeq, policySeq>>

\* DELETE /api/policies/:id
DeletePolicy(id) ==
    /\ policies' = DeleteRow(policies, id)
    /\ resp' = Status200("DELETE /api/policies/:id")
    /\ UNCHANGED <<auth, members, memberSeq, policySeq>>

\* the ids a request names: every id handed out, and one never handed out
RowIds == 1 .. (MaxRows + 1)

CrudNext ==
    \/ GetMembers
    \/ \E id \in RowIds : GetMember(id)
    \/ \E b \in MemberBodies : PostMember(b)
    \/ \E id \in RowIds, b \in MemberBodies : PutMember(id, b)
    \/ \E id \in RowIds : DeleteMember(id)
    \/ GetPolicies
    \/ \E id \in RowIds : GetPolicy(id)
    \/ \E b \in PolicyBodies : PostPolicy(b)
    \/ \E id \in RowIds, b \in PolicyBodies : PutPolicy(id, b)
    \/ \E id \in RowIds : DeletePolicy(id)

CrudSpec == Init /\ [][CrudNext]_vars

\* C7, as claimed: a PUT /api/policies/:id on an existing policy is answered
\* 200 and the next read of that policy returns the six submitted fields,
\* memberId included.
C7_Claim ==
    [][\A id \in RowIds, b \in PolicyBodies :
         (PutPolicy(id, b) /\ id \in DOMAIN policies) =>
            /\ resp'.status = 200
            /\ \A row \in SelectRow(policies', id) :
                  /\ row.memberId = b.memberId
                  /\ row.planType = b.planType
                  /\ row.coverLevel = b.coverLevel
                  /\ row.premium = b.premium
                  /\ row.startDate = b.startDate
                  /\ row.status = b.status]_vars

\* C8: a PUT or DELETE of a member or policy whose id no row has is answered
\* 200 and leaves the members, policies and users tables as they were.
C8_Thm ==
    [][/\ \A id \in RowIds \ DOMAIN members :
            /\ \A b \in MemberBodies :
                  (resp'.op = "PUT /api/members/:id" /\ PutMember(id, b)) =>
                     resp'.status = 200 /\ UNCHANGED <<members, policies, users>>
            /\ (resp'.op = "DELETE /api/members/:id" /\ DeleteMember(id)) =>
                  resp'.status = 200 /\ UNCHANGED <<members, policies, users>>
       /\ \A id \in RowIds \ DOMAIN policies :
            /\ \A b \in PolicyBodies :
                  (resp'.op = "PUT /api/policies/:id" /\ PutPolicy(id, b)) =>
                     resp'.status = 200 /\ UNCHANGED <<members, policies, users>>
            /\ (resp'.op = "DELETE /api/policies/:id" /\ DeletePolicy(id)) =>
                  resp'.status = 200 /\ UNCHANGED <<members, policies, users>>]_vars

\* a PUT of a member has been answered 200 although no member was ever
\* created, and the tables are still empty
C8_Witness ==
    /\ resp.op = "PUT /api/members/:id" /\ resp.status = 200
    /\ memberSeq = 0
    /\ members = <<>> /\ policies = <<>> /\ users = <<>>

====
